---- MODULE Spec2Model ----
(***************************************************************************)
(* A model of the crawler (src/scraper.py, class WebsiteScraper) and of    *)
(* the formatter and the response splitter (src/generator.py, class        *)
(* YAMLGenerator).                                                         *)
(*                                                                         *)
(* The crawl is a sequential program: pc is its position inside scrape()   *)
(* and the methods it awaits.  The browser, the web site and the pages it  *)
(* serves are the environment: every load, click and DOM query is a        *)
(* nondeterministic choice among the outcomes Playwright can produce (a    *)
(* result drawn from a bounded set, or an exception).                      *)
(***************************************************************************)
EXTENDS Integers, Sequences, FiniteSets, TLC

VARIABLES
    pc,            \* position of the crawl inside scrape()
    start_url,     \* self.start_url
    max_pages,     \* self.max_pages
    base_domain,   \* self.base_domain
    visited_urls,  \* self.visited_urls
    pages_data,    \* self.pages_data
    browser,       \* "none" | "open" | "closed": the Browser object of scrape()
    current_url,   \* page.url, the URL the single Page is positioned at
    queue,         \* list(nav_urls)[:max_pages - 1], the part not yet iterated
    tabs,          \* tabs[:5] of _click_tabs, the part not yet iterated
    result,        \* what scrape() returned (NoResult before it returns)
    start_failed,  \* history: the load of the start URL threw
    load_failed,   \* history: some load inside _scrape_page threw
    tab_read,      \* history: what the last iteration of the tab loop read
    gpc,           \* position of the splitter: "input", then what was applied
    content,       \* the raw response handed to _parse_response / _clean_yaml
    company_name,  \* company_name of _parse_response
    home_url,      \* home_url of _parse_response
    persona_yaml,  \* first component of what _parse_response returned
    playbook_yaml, \* second component of what _parse_response returned
    cleaned,       \* _clean_yaml(content)
    recleaned,     \* _clean_yaml(_clean_yaml(content))
    fpc,           \* position of the formatter: "idle", "once", "twice"
    pages_content, \* what _format_pages_content returned
    pages_content_again  \* what a second call of it on the same value returned

crawl_vars == <<pc, start_url, max_pages, base_domain, visited_urls, pages_data,
                browser, current_url, queue, tabs, result, start_failed,
                load_failed, tab_read>>

gen_vars == <<gpc, content, company_name, home_url, persona_yaml, playbook_yaml,
              cleaned, recleaned, fpc, pages_content, pages_content_again>>

vars == <<crawl_vars, gen_vars>>

-----------------------------------------------------------------------------
(* Bounds of the model. *)

MaxPages == 3     \* max_pages ranges over 1..MaxPages
NumPaths == 2     \* pages of the site besides its root
MaxTabs  == 2     \* tab elements the start page can show

(* Constants of the program. *)

TextLimit  == 15000   \* text[:15000]
ClickLimit == 50      \* clickables[:50]
NavLimit   == 20      \* nav_items[:20]
TabLimit   == 5       \* tabs[:5]
PrefixLen  == 500     \* text[:500]

-----------------------------------------------------------------------------
(* Generic helpers. *)

Min(a, b) == IF a <= b THEN a ELSE b

\* s[:n] of a Python list
Take(s, n) == SubSeq(s, 1, Min(Len(s), IF n < 0 THEN 0 ELSE n))

\* the sequences that enumerate the finite set S once each: every order a
\* Python set can be iterated in
Orders(S) ==
    {f \in [1..Cardinality(S) -> S] : \A i, j \in 1..Cardinality(S) : f[i] = f[j] => i = j}

-----------------------------------------------------------------------------
(* URLs.  A URL is the pair urlparse() makes of it; Malformed stands for   *)
(* an href urlparse() rejects with ValueError (e.g. "http://[").           *)

U(host, p) == [netloc |-> host, path |-> p]
Home       == U("site", 0)
OtherHome  == U("other", 0)
Malformed  == [netloc |-> "?", path |-> -1]
SitePages(k) == {U("site", i) : i \in 1..k}

URLSeq == [i \in 1..(NumPaths + 1) |-> U("site", i - 1)] \o <<OtherHome, Malformed>>
URLs   == {URLSeq[i] : i \in 1..Len(URLSeq)}

UrlparseRaises(u) == u = Malformed
Netloc(u) == u.netloc

None == [netloc |-> "None", path |-> -2]

\* the list of the URLs of S, in document order
InOrder(S) == SelectSeq(URLSeq, LAMBDA u : u \in S)

-----------------------------------------------------------------------------
(* Page text, run-length encoded: a sequence of runs [ch, n] with n > 0    *)
(* and neighbouring runs of different characters, so that two texts are    *)
(* equal exactly when their encodings are.                                 *)

Run(c, k) == [ch |-> c, n |-> k]

RECURSIVE TakeText(_, _)
\* text[:n]
TakeText(t, n) ==
    IF n <= 0 \/ t = <<>> THEN <<>>
    ELSE IF Head(t).n <= n THEN <<Head(t)>> \o TakeText(Tail(t), n - Head(t).n)
    ELSE <<Run(Head(t).ch, n)>>

LongText  == <<Run("a", TextLimit), Run("b", 1)>>      \* longer than the text ceiling
TextAY    == <<Run("a", PrefixLen), Run("y", 1)>>      \* LongText's first 500, then differs
TextAZ    == <<Run("a", PrefixLen), Run("z", 1)>>      \* TextAY's first 500, then differs
TextOther == <<Run("a", PrefixLen - 1), Run("y", 2)>>  \* differs at character 500
EmptyText == <<>>

PageTexts == {LongText, TextOther}
TabTexts  == {TextAY, TextAZ, TextOther}

-----------------------------------------------------------------------------
(* What a loaded page shows to the three page.evaluate() calls of          *)
(* _scrape_page: its innerText, the hrefs of its navigation anchors and    *)
(* the hrefs of its anchors.  The page served at the root of a host links  *)
(* to the first k pages of the site, for any k, and possibly to itself, to *)
(* another host or to a malformed href; every other page links back to the *)
(* root, to all the pages of the site and to another host.                 *)

NavSets  == {{}, {Home}, {Malformed}}
LinkSets == {SitePages(k) : k \in 0..NumPaths} \cup {SitePages(NumPaths) \cup {OtherHome}}
RootSnapshots == [text : PageTexts, nav : NavSets, links : LinkSets]
LeafSnapshots == [text : PageTexts, nav : {{Home}}, links : {SitePages(NumPaths) \cup {OtherHome}}]
Snapshots(url) == IF url.path = 0 THEN RootSnapshots ELSE LeafSnapshots

\* the clickables list: the buttons first, then the anchors
Clickables(links) ==
    <<[type |-> "button", text |-> "b", href |-> None]>>
    \o [i \in 1..Cardinality(links) |->
          [type |-> "link", text |-> "l", href |-> InOrder(links)[i]]]

\* the nav_items list: the navigation anchors, then the tab-like elements
NavItems(nav) ==
    [i \in 1..Cardinality(nav) |-> [text |-> "n", href |-> InOrder(nav)[i], isTab |-> FALSE]]
    \o <<[text |-> "t", href |-> None, isTab |-> TRUE]>>

\* page_data of _scrape_page
PageData(url, snap) ==
    [url        |-> url,
     title      |-> <<"title">>,
     text       |-> IF snap.text # EmptyText THEN TakeText(snap.text, TextLimit) ELSE EmptyText,
     clickables |-> Take(Clickables(snap.links), ClickLimit),
     nav_items  |-> Take(NavItems(snap.nav), NavLimit),
     is_tab     |-> FALSE,
     tab_name   |-> <<>>]

NoResult == [home_url |-> None, pages |-> <<>>, returned |-> FALSE]
NoRead   == [outcome |-> "none", text |-> EmptyText]

-----------------------------------------------------------------------------
(* The state after WebsiteScraper(start_url, max_pages) is constructed and *)
(* scrape() is entered.                                                    *)

StartURLs == {Home, OtherHome}

CrawlInit ==
    /\ pc = "launch"
    /\ start_url \in StartURLs
    /\ max_pages \in 1..MaxPages
    /\ base_domain = Netloc(start_url)
    /\ visited_urls = {}
    /\ pages_data = <<>>
    /\ browser = "none"
    /\ current_url = None
    /\ queue = <<>>
    /\ tabs = <<>>
    /\ result = NoResult
    /\ start_failed = FALSE
    /\ load_failed = FALSE
    /\ tab_read = NoRead

-----------------------------------------------------------------------------
(* scrape(): launching the browser, the context and the page.  An          *)
(* exception here is outside the try block and leaves scrape().            *)

Launch ==
    /\ pc = "launch"
    /\ \/ pc' = "new_context" /\ browser' = "open"
       \/ pc' = "raised" /\ UNCHANGED browser
    /\ UNCHANGED <<gen_vars, start_url, max_pages, base_domain, visited_urls, pages_data,
                   current_url, queue, tabs, result, start_failed, load_failed, tab_read>>

NewContext ==
    /\ pc = "new_context"
    /\ pc' \in {"new_page", "raised"}
    /\ UNCHANGED <<gen_vars, start_url, max_pages, base_domain, visited_urls, pages_data, browser,
                   current_url, queue, tabs, result, start_failed, load_failed, tab_read>>

NewPage ==
    /\ pc = "new_page"
    /\ pc' \in {"scrape_start", "raised"}
    /\ UNCHANGED <<gen_vars, start_url, max_pages, base_domain, visited_urls, pages_data, browser,
                   current_url, queue, tabs, result, start_failed, load_failed, tab_read>>

-----------------------------------------------------------------------------
(* _scrape_page(page, url) *)

AlreadyVisited(url) == url \in visited_urls

\* a budget test that is off by one
BudgetExhaustedOffByOne == Cardinality(visited_urls) > max_pages

BudgetExhausted == Cardinality(visited_urls) >= max_pages

SameDomain(url) == Netloc(url) = base_domain

\* _scrape_page without its except block: a failed load leaves the method
\* and is caught by scrape(), which goes on to the finally block
ScrapePageNoCatch(url, next) ==
    IF AlreadyVisited(url) \/ BudgetExhausted
    THEN /\ pc' = next
         /\ UNCHANGED <<visited_urls, pages_data, current_url, load_failed, start_failed>>
    ELSE IF UrlparseRaises(url)
    THEN /\ pc' = "close"
         /\ UNCHANGED <<visited_urls, pages_data, current_url, load_failed, start_failed>>
    ELSE IF ~SameDomain(url)
    THEN /\ pc' = next
         /\ UNCHANGED <<visited_urls, pages_data, current_url, load_failed, start_failed>>
    ELSE /\ visited_urls' = visited_urls \cup {url}
         /\ \/ \E snap \in Snapshots(url) :
                 /\ pages_data' = Append(pages_data, PageData(url, snap))
                 /\ current_url' = url
                 /\ pc' = next
                 /\ UNCHANGED <<load_failed, start_failed>>
            \/ /\ current_url' \in {current_url, url}
               /\ load_failed' = TRUE
               /\ start_failed' = (start_failed \/ pc = "scrape_start")
               /\ pc' = "close"
               /\ UNCHANGED pages_data

\* The whole of _scrape_page, called at position pc and returning to position
\* next.  An exception of urlparse leaves _scrape_page and is caught by the
\* except block of scrape(), which goes on to the finally block.
ScrapePage(url, next) ==
    IF AlreadyVisited(url) \/ BudgetExhausted
    THEN /\ pc' = next
         /\ UNCHANGED <<visited_urls, pages_data, current_url, load_failed, start_failed>>
    ELSE IF UrlparseRaises(url)
    THEN /\ pc' = "close"
         /\ UNCHANGED <<visited_urls, pages_data, current_url, load_failed, start_failed>>
    ELSE IF ~SameDomain(url)
    THEN /\ pc' = next
         /\ UNCHANGED <<visited_urls, pages_data, current_url, load_failed, start_failed>>
    ELSE /\ visited_urls' = visited_urls \cup {url}
         /\ pc' = next
         /\ \/ \E snap \in Snapshots(url) :
                 /\ pages_data' = Append(pages_data, PageData(url, snap))
                 /\ current_url' = url
                 /\ UNCHANGED <<load_failed, start_failed>>
            \/ /\ current_url' \in {current_url, url}
               /\ load_failed' = TRUE
               /\ start_failed' = (start_failed \/ pc = "scrape_start")
               /\ UNCHANGED pages_data

ScrapeStart ==
    /\ pc = "scrape_start"
    /\ ScrapePage(start_url, "discover")
    /\ UNCHANGED <<gen_vars, start_url, max_pages, base_domain, browser, queue, tabs, result, tab_read>>

-----------------------------------------------------------------------------
(* _discover_pages(page, browser) *)

\* the hrefs the two loops over first_page read, in the order they read them
NavHrefs(first_page) ==
    {first_page.nav_items[i].href : i \in 1..Len(first_page.nav_items)} \ {None}

LinkHrefs(first_page) ==
    {first_page.clickables[i].href :
        i \in {j \in 1..Len(first_page.clickables) : first_page.clickables[j].type = "link"}}
    \ {None}

\* nav_urls
NavUrls(first_page) ==
    {h \in NavHrefs(first_page) \cup LinkHrefs(first_page) : SameDomain(h)}

\* list(nav_urls)[:self.max_pages - 1], for the order the set is iterated in
ExpandSlice(order) == Take(order, max_pages - 1)

\* _discover_pages with its early return guarding only the discovery, so
\* that the tab sweep runs although no page was scraped
DiscoverSweepsAnyway ==
    /\ pc = "discover"
    /\ IF pages_data = <<>>
       THEN pc' = "expand" /\ UNCHANGED queue
       ELSE IF \E h \in NavHrefs(pages_data[1]) \cup LinkHrefs(pages_data[1]) : UrlparseRaises(h)
       THEN pc' = "close" /\ UNCHANGED queue
       ELSE /\ \E order \in Orders(NavUrls(pages_data[1])) : queue' = ExpandSlice(order)
            /\ pc' = "expand"
    /\ UNCHANGED <<gen_vars, start_url, max_pages, base_domain, visited_urls, pages_data, browser,
                   current_url, tabs, result, start_failed, load_failed, tab_read>>

Discover ==
    /\ pc = "discover"
    /\ IF pages_data = <<>>
       THEN pc' = "close" /\ UNCHANGED queue
       ELSE IF \E h \in NavHrefs(pages_data[1]) \cup LinkHrefs(pages_data[1]) : UrlparseRaises(h)
       THEN pc' = "close" /\ UNCHANGED queue
       ELSE /\ \E order \in Orders(NavUrls(pages_data[1])) : queue' = ExpandSlice(order)
            /\ pc' = "expand"
    /\ UNCHANGED <<gen_vars, start_url, max_pages, base_domain, visited_urls, pages_data, browser,
                   current_url, tabs, result, start_failed, load_failed, tab_read>>

\* an iteration that also queues the same-domain links of the page it
\* scraped, as a crawl of more than one level would
ExpandDeep ==
    /\ pc = "expand"
    /\ queue # <<>>
    /\ IF Head(queue) \notin visited_urls
       THEN /\ ScrapePage(Head(queue), "expand")
            /\ queue' = Tail(queue) \o
                   (IF Len(pages_data') > Len(pages_data)
                    THEN InOrder(NavUrls(pages_data'[Len(pages_data')]))
                    ELSE <<>>)
       ELSE /\ queue' = Tail(queue)
            /\ UNCHANGED <<pc, visited_urls, pages_data, current_url, load_failed, start_failed>>
    /\ UNCHANGED <<gen_vars, start_url, max_pages, base_domain, browser, tabs, result, tab_read>>

\* one iteration of "for url in list(nav_urls)[:self.max_pages - 1]"
Expand ==
    /\ pc = "expand"
    /\ queue # <<>>
    /\ queue' = Tail(queue)
    /\ IF Head(queue) \notin visited_urls
       THEN ScrapePage(Head(queue), "expand")
       ELSE UNCHANGED <<pc, visited_urls, pages_data, current_url, load_failed, start_failed>>
    /\ UNCHANGED <<gen_vars, start_url, max_pages, base_domain, browser, tabs, result, tab_read>>

\* the loop is over: _click_tabs is called
ExpandDone ==
    /\ pc = "expand"
    /\ queue = <<>>
    /\ pc' = "tabs_goto"
    /\ UNCHANGED <<gen_vars, start_url, max_pages, base_domain, visited_urls, pages_data, browser,
                   current_url, queue, tabs, result, start_failed, load_failed, tab_read>>

-----------------------------------------------------------------------------
(* _click_tabs(page) *)

\* character sequences, for the labels of the tabs
Whitespace == {" ", "\n", "\t"}

\* str.strip()
Strip(s) ==
    IF \A i \in 1..Len(s) : s[i] \in Whitespace THEN <<>>
    ELSE LET first == CHOOSE i \in 1..Len(s) :
                          /\ s[i] \notin Whitespace
                          /\ \A j \in 1..(i - 1) : s[j] \in Whitespace
             last  == CHOOSE i \in 1..Len(s) :
                          /\ s[i] \notin Whitespace
                          /\ \A j \in (i + 1)..Len(s) : s[j] \in Whitespace
         IN  SubSeq(s, first, last)

TabLabels == {<<" ">>, <<"t", " ">>}
ClickURLs == {Home, OtherHome}

\* a comparison of the whole texts instead of their first 500 characters
SeemsDifferentWholeText(text) ==
    ~\E i \in 1..Len(pages_data) : pages_data[i].text = text

\* "not any(p.get('text', '')[:500] == text[:500] for p in self.pages_data)"
SeemsDifferent(text) ==
    ~\E i \in 1..Len(pages_data) :
        TakeText(pages_data[i].text, PrefixLen) = TakeText(text, PrefixLen)

\* tab_data
TabData(url, label, text) ==
    [url        |-> url,
     title      |-> <<"title", " - ">> \o Strip(label),
     text       |-> IF text # EmptyText THEN TakeText(text, TextLimit) ELSE EmptyText,
     clickables |-> <<>>,
     nav_items  |-> <<>>,
     is_tab     |-> TRUE,
     tab_name   |-> Strip(label)]

\* page.goto(self.start_url) and query_selector_all: the outer try of
\* _click_tabs passes on any exception
\* the same with no limit on the tabs it iterates over
TabsGotoOfUnlimited(counts) ==
    /\ pc = "tabs_goto"
    /\ \/ /\ pc' = "close"
          /\ current_url' \in {current_url, start_url}
          /\ UNCHANGED tabs
       \/ /\ \E n \in counts : tabs' = [i \in 1..n |-> "tab"]
          /\ current_url' = start_url
          /\ pc' = "tab_loop"
    /\ UNCHANGED <<gen_vars, start_url, max_pages, base_domain, visited_urls, pages_data, browser,
                   queue, result, start_failed, load_failed, tab_read>>

\* on a page that shows one of counts tab elements
TabsGotoOf(counts) ==
    /\ pc = "tabs_goto"
    /\ \/ /\ pc' = "close"
          /\ current_url' \in {current_url, start_url}
          /\ UNCHANGED tabs
       \/ /\ \E n \in counts : tabs' = Take([i \in 1..n |-> "tab"], TabLimit)
          /\ current_url' = start_url
          /\ pc' = "tab_loop"
    /\ UNCHANGED <<gen_vars, start_url, max_pages, base_domain, visited_urls, pages_data, browser,
                   queue, result, start_failed, load_failed, tab_read>>

TabsGoto == TabsGotoOf(0..MaxTabs)

\* one iteration of "for i, tab in enumerate(tabs[:5])", the click leaving
\* the page at one of urls and showing one of texts
ClickTabOf(texts, urls) ==
    /\ pc = "tab_loop"
    /\ tabs # <<>>
    /\ tabs' = Tail(tabs)
    /\ \/ \* inner_text() or click() throws: continue
          /\ tab_read' = [outcome |-> "failed", text |-> EmptyText]
          /\ UNCHANGED <<pages_data, current_url>>
       \/ \E label \in TabLabels :
            IF Strip(label) = <<>>
            THEN /\ tab_read' = [outcome |-> "blank", text |-> EmptyText]
                 /\ UNCHANGED <<pages_data, current_url>>
            ELSE \E url \in urls :
                   /\ current_url' = url
                   /\ \/ \* evaluate() or title() throws: continue
                         /\ tab_read' = [outcome |-> "failed", text |-> EmptyText]
                         /\ UNCHANGED pages_data
                      \/ \E text \in texts :
                           IF SeemsDifferent(text)
                           THEN /\ pages_data' = Append(pages_data, TabData(url, label, text))
                                /\ tab_read' = [outcome |-> "appended", text |-> text]
                           ELSE /\ tab_read' = [outcome |-> "duplicate", text |-> text]
                                /\ UNCHANGED pages_data
    /\ UNCHANGED <<gen_vars, pc, start_url, max_pages, base_domain, visited_urls, browser, queue,
                   result, start_failed, load_failed>>

ClickTab == ClickTabOf(TabTexts, {current_url} \cup ClickURLs)

\* a start page with more tab elements than the sweep takes, the k-th of
\* them from the end showing a text of its own
ManyTabs == 6

FreshText(k) == <<Run("t", k), Run("a", PrefixLen)>>

TabsGotoMany == TabsGotoOf({ManyTabs})

ClickTabMany == ClickTabOf({FreshText(Len(tabs))}, {current_url})

TabsDone ==
    /\ pc = "tab_loop"
    /\ tabs = <<>>
    /\ pc' = "close"
    /\ tab_read' = NoRead
    /\ UNCHANGED <<gen_vars, start_url, max_pages, base_domain, visited_urls, pages_data, browser,
                   current_url, queue, tabs, result, start_failed, load_failed>>

-----------------------------------------------------------------------------
(* scrape(): the finally block and the return *)

Close ==
    /\ pc = "close"
    /\ browser' = "closed"
    /\ result' = [home_url |-> start_url, pages |-> pages_data, returned |-> TRUE]
    /\ pc' = "returned"
    /\ UNCHANGED <<gen_vars, start_url, max_pages, base_domain, visited_urls, pages_data,
                   current_url, queue, tabs, start_failed, load_failed, tab_read>>

-----------------------------------------------------------------------------
(* src/generator.py: the response splitter of YAMLGenerator.  A string is  *)
(* the sequence of its characters.                                         *)

At(s, i) == IF i \in 1..Len(s) THEN s[i] ELSE ""

\* s[i:].startswith(w), i counted from 1
StartsWithAt(s, w, i) ==
    /\ i >= 1
    /\ i + Len(w) - 1 <= Len(s)
    /\ SubSeq(s, i, i + Len(w) - 1) = w

\* the first place at or after from where w occurs in s, or 0
Find(s, w, from) ==
    LET hits == {i \in from..Len(s) : StartsWithAt(s, w, i)}
    IN  IF hits = {} THEN 0 ELSE CHOOSE i \in hits : \A j \in hits : i <= j

\* "w in s"
Contains(s, w) == Find(s, w, 1) # 0

RECURSIVE SplitFrom(_, _, _)
SplitFrom(s, sep, from) ==
    LET i == Find(s, sep, from)
    IN  IF i = 0 THEN <<SubSeq(s, from, Len(s))>>
        ELSE <<SubSeq(s, from, i - 1)>> \o SplitFrom(s, sep, i + Len(sep))

\* s.split(sep)
Split(s, sep) == SplitFrom(s, sep, 1)

\* the first place at or after i that holds no whitespace (Len(s) + 1 when
\* there is none): where a greedy run of whitespace started at i ends
SkipWhitespace(s, i) ==
    LET stops == {j \in i..Len(s) : s[j] \notin Whitespace}
    IN  IF stops = {} THEN Len(s) + 1 ELSE CHOOSE j \in stops : \A k \in stops : j <= k

\* where ^ matches under re.MULTILINE
LineStart(s, p) == p = 1 \/ At(s, p - 1) = "\n"

\* the marker the prompt asks for, in _build_prompt
PromptMarker == <<"-", "-", "-", "S", "P", "L", "I", "T", "-", "-", "-">>

\* a marker mistyped in _parse_response
MarkerTypo == <<"-", "-", "S", "P", "L", "I", "T", "-", "-">>

\* the marker _parse_response looks for
Marker == <<"-", "-", "-", "S", "P", "L", "I", "T", "-", "-", "-">>
\* three backquotes; the backquote is written by its code point
Fence  == <<"U+0060", "U+0060", "U+0060">>

\* the first pattern of _clean_yaml (a fence tagged ym, yam, yml or yaml at a
\* line start, then whitespace) tried at p: the end of the match (the place after
\* it), or 0 when it does not match there
TagFenceEnd(s, p) ==
    IF ~(LineStart(s, p) /\ StartsWithAt(s, Fence \o <<"y">>, p)) THEN 0
    ELSE LET q  == p + 4
             q2 == IF At(s, q) = "a" THEN q + 1 ELSE q
             q3 == q2 + 1
             q4 == IF At(s, q3) = "l" THEN q3 + 1 ELSE q3
         IN  IF At(s, q2) # "m" THEN 0 ELSE SkipWhitespace(s, q4)

\* the second pattern of _clean_yaml (a line that is a bare fence) tried at p:
\* the end of the match, or 0.  The greedy whitespace gives
\* back characters until $ holds: at the end of the string, or before the
\* last newline of the whitespace that follows the fence.
BareFenceEnd(s, p) ==
    IF ~(LineStart(s, p) /\ StartsWithAt(s, Fence, p)) THEN 0
    ELSE LET r  == SkipWhitespace(s, p + 3)
             nl == {q \in (p + 3)..(r - 1) : s[q] = "\n"}
         IN  IF r = Len(s) + 1 THEN r
             ELSE IF nl = {} THEN 0
             ELSE CHOOSE q \in nl : \A k \in nl : k <= q

RECURSIVE RemoveTagFences(_, _)
\* re.sub of the first pattern by the empty string, from place from on
RemoveTagFences(s, from) ==
    LET hits == {p \in from..Len(s) : TagFenceEnd(s, p) # 0}
    IN  IF hits = {} THEN SubSeq(s, from, Len(s))
        ELSE LET p == CHOOSE i \in hits : \A j \in hits : i <= j
             IN  SubSeq(s, from, p - 1) \o RemoveTagFences(s, TagFenceEnd(s, p))

RECURSIVE RemoveBareFences(_, _)
\* re.sub of the second pattern by the empty string, from place from on
RemoveBareFences(s, from) ==
    LET hits == {p \in from..Len(s) : BareFenceEnd(s, p) # 0}
    IN  IF hits = {} THEN SubSeq(s, from, Len(s))
        ELSE LET p == CHOOSE i \in hits : \A j \in hits : i <= j
             IN  SubSeq(s, from, p - 1) \o RemoveBareFences(s, BareFenceEnd(s, p))

\* _clean_yaml(content)
CleanYaml(text) ==
    Strip(RemoveBareFences(RemoveTagFences(text, 1), 1))

MetaKey      == <<"m", "e", "t", "a", ":">>
CompanyIdKey == <<"c", "o", "m", "p", "a", "n", "y", "_", "i", "d", ":">>

\* where the preamble pattern of _parse_response (a newline, the key meta,
\* whitespace holding a newline that is not its last character, the key
\* company_id) first matches in s, counted from 1, or 0 when it does not
PreambleStart(s) ==
    LET hits == {i \in 1..Len(s) :
                    /\ s[i] = "\n"
                    /\ StartsWithAt(s, MetaKey, i + 1)
                    /\ LET r == SkipWhitespace(s, i + 6)
                       IN  /\ StartsWithAt(s, CompanyIdKey, r)
                           /\ \E j \in (i + 6)..(r - 2) : s[j] = "\n"}
    IN  IF hits = {} THEN 0 ELSE CHOOSE i \in hits : \A j \in hits : i <= j

UpperCase == <<"A", "B", "C", "D", "E", "F", "G", "H", "I", "J", "K", "L", "M",
               "N", "O", "P", "Q", "R", "S", "T", "U", "V", "W", "X", "Y", "Z">>
LowerCase == <<"a", "b", "c", "d", "e", "f", "g", "h", "i", "j", "k", "l", "m",
               "n", "o", "p", "q", "r", "s", "t", "u", "v", "w", "x", "y", "z">>

\* str.lower()
Lower(s) ==
    [i \in 1..Len(s) |->
        IF \E k \in 1..26 : UpperCase[k] = s[i]
        THEN LowerCase[CHOOSE k \in 1..26 : UpperCase[k] = s[i]]
        ELSE s[i]]

\* company_name.lower().replace(" ", "").replace("-", "").replace("_", "")
CompanyId(name) ==
    SelectSeq(Lower(name), LAMBDA c : c \notin {" ", "-", "_"})

\* the literal parts of the template of _generate_fallback_playbook; two
\* characters are written by their code points: the dash of the last line,
\* outside ASCII, as "U+2014" and the apostrophe as "U+0027"
FallbackHead ==
    <<"m", "e", "t", "a", ":", "\n", " ", " ", "c", "o", "m", "p", "a", "n", "y", "_", "i", "d",
      ":", " ", "\"", "p", "e", "r", "s", "o", "n", "a", "_">>

FallbackAfterId ==
    <<"\"", "\n", " ", " ", "n", "a", "m", "e", ":", " ", "\"", "F", "u", "l", "l", " ">>

FallbackAfterName ==
    <<" ", "D", "e", "m", "o", "\"", "\n", " ", " ", "d", "e", "s", "c", "r", "i", "p", "t", "i",
      "o", "n", ":", " ", "\"", "W", "a", "l", "k", " ", "t", "h", "r", "o", "u", "g", "h", " ",
      "t", "h", "e", " ", "c", "o", "r", "e", " ", "f", "e", "a", "t", "u", "r", "e", "s", "\"",
      "\n", " ", " ", "e", "s", "t", "i", "m", "a", "t", "e", "d", "_", "d", "u", "r", "a", "t",
      "i", "o", "n", ":", " ", "\"", "2", "-", "3", " ", "m", "i", "n", "u", "t", "e", "s", "\"",
      "\n", " ", " ", "s", "t", "a", "r", "t", "_", "u", "r", "l", ":", " ", "\"">>

FallbackTail ==
    <<"\"", "\n", "\n", "t", "r", "i", "g", "g", "e", "r", "s", ":", "\n", " ", " ", "-", " ",
      "\"", "g", "i", "v", "e", " ", "m", "e", " ", "a", " ", "d", "e", "m", "o", "\"", "\n",
      " ", " ", "-", " ", "\"", "s", "h", "o", "w", " ", "m", "e", " ", "e", "v", "e", "r", "y",
      "t", "h", "i", "n", "g", "\"", "\n", " ", " ", "-", " ", "\"", "f", "u", "l", "l", " ",
      "t", "o", "u", "r", "\"", "\n", "\n", "s", "t", "e", "p", "s", ":", "\n", " ", " ", "-",
      " ", "i", "d", ":", " ", "\"", "i", "n", "t", "r", "o", "\"", "\n", " ", " ", " ", " ",
      "s", "c", "r", "e", "e", "n", ":", " ", "\"", "d", "a", "s", "h", "b", "o", "a", "r", "d",
      "\"", "\n", " ", " ", " ", " ", "n", "a", "r", "r", "a", "t", "e", "_", "i", "n", "t", "e",
      "n", "t", ":", " ", "\"", "w", "e", "l", "c", "o", "m", "e", " ", "t", "h", "e", " ", "u",
      "s", "e", "r", " ", "a", "n", "d", " ", "i", "n", "t", "r", "o", "d", "u", "c", "e", " ",
      "t", "h", "e", " ", "p", "r", "o", "d", "u", "c", "t", "\"", "\n", "\n", " ", " ", "-",
      " ", "i", "d", ":", " ", "\"", "c", "l", "o", "s", "i", "n", "g", "\"", "\n", " ", " ",
      " ", " ", "n", "a", "r", "r", "a", "t", "e", "_", "i", "n", "t", "e", "n", "t", ":", " ",
      "\"", "w", "r", "a", "p", " ", "u", "p", " ", "a", "n", "d", " ", "a", "s", "k", " ", "i",
      "f", " ", "t", "h", "e", "y", " ", "h", "a", "v", "e", " ", "q", "u", "e", "s", "t", "i",
      "o", "n", "s", "\"", "\n", "\n", "f", "a", "l", "l", "b", "a", "c", "k", "_", "n", "a",
      "r", "r", "a", "t", "i", "o", "n", ":", "\n", " ", " ", "a", "c", "t", "i", "o", "n", "_",
      "f", "a", "i", "l", "e", "d", ":", " ", "\"", "H", "m", "m", ",", " ", "t", "h", "a", "t",
      " ", "d", "i", "d", "n", "U+0027", "t", " ", "w", "o", "r", "k", ".", " ", "L", "e", "t", " ",
      "m", "e", " ", "t", "r", "y", " ", "a", "n", "o", "t", "h", "e", "r", " ", "w", "a", "y",
      ".", "\"", "\n", " ", " ", "e", "l", "e", "m", "e", "n", "t", "_", "n", "o", "t", "_", "f",
      "o", "u", "n", "d", ":", " ", "\"", "I", "U+0027", "m", " ", "h", "a", "v", "i", "n", "g", " ",
      "t", "r", "o", "u", "b", "l", "e", " ", "f", "i", "n", "d", "i", "n", "g", " ", "t", "h",
      "a", "t", ".", " ", "L", "e", "t", " ", "m", "e", " ", "d", "e", "s", "c", "r", "i", "b",
      "e", " ", "i", "t", " ", "i", "n", "s", "t", "e", "a", "d", ".", "\"", "\n", " ", " ", "d",
      "e", "m", "o", "_", "i", "n", "t", "e", "r", "r", "u", "p", "t", "e", "d", ":", " ", "\"",
      "G", "o", "t", " ", "i", "t", " ", "U+2014", " ", "I", "U+0027", "l", "l", " ", "p", "a", "u", "s",
      "e", " ", "h", "e", "r", "e", ".", " ", "W", "h", "a", "t", " ", "w", "o", "u", "l", "d",
      " ", "y", "o", "u", " ", "l", "i", "k", "e", " ", "t", "o", " ", "k", "n", "o", "w", "?",
      "\"", "\n">>

\* _generate_fallback_playbook(company_name, home_url)
FallbackPlaybook(name, url) ==
    FallbackHead \o CompanyId(name) \o FallbackAfterId \o name
        \o FallbackAfterName \o url \o FallbackTail

\* _parse_response with the fallback its comment announces ("return all as
\* persona, empty playbook") instead of the generated playbook
ParseResponseEmptyFallback(raw, name, url) ==
    LET parts == IF Contains(raw, Marker)
                 THEN LET split == Split(raw, Marker)
                      IN  [persona  |-> Strip(split[1]),
                           playbook |-> IF Len(split) > 1 THEN Strip(split[2]) ELSE <<>>]
                 ELSE LET split_pos == PreambleStart(raw)
                      IN  IF split_pos # 0
                          THEN [persona  |-> Strip(SubSeq(raw, 1, split_pos - 1)),
                                playbook |-> Strip(SubSeq(raw, split_pos, Len(raw)))]
                          ELSE [persona  |-> Strip(raw), playbook |-> <<>>]
    IN  [persona |-> CleanYaml(parts.persona), playbook |-> CleanYaml(parts.playbook)]

\* _parse_response(content, company_name, home_url): the pair it returns
\* (yaml.safe_load only warns, and changes nothing)
ParseResponse(raw, name, url) ==
    LET parts == IF Contains(raw, Marker)
                 THEN LET split == Split(raw, Marker)
                      IN  [persona  |-> Strip(split[1]),
                           playbook |-> IF Len(split) > 1 THEN Strip(split[2]) ELSE <<>>]
                 ELSE LET split_pos == PreambleStart(raw)
                      IN  IF split_pos # 0
                          THEN [persona  |-> Strip(SubSeq(raw, 1, split_pos - 1)),
                                playbook |-> Strip(SubSeq(raw, split_pos, Len(raw)))]
                          ELSE [persona  |-> Strip(raw),
                                playbook |-> FallbackPlaybook(name, url)]
    IN  [persona |-> CleanYaml(parts.persona), playbook |-> CleanYaml(parts.playbook)]

-----------------------------------------------------------------------------
(* The splitter as a state machine: a response is drawn, then              *)
(* _parse_response is applied to it, or _clean_yaml once and once more.    *)

MaxPieces == 3    \* a response is made of at most MaxPieces pieces
MaxPlain  == 2    \* each half of a well-formed response of at most MaxPlain

Pieces ==
    {<<"x">>, <<" ">>, <<"\n">>, Fence, <<"y", "a", "m", "l">>, PromptMarker,
     <<"\n">> \o MetaKey \o <<"\n">>, CompanyIdKey}

\* the pieces the two halves of a well-formed response are made of
PlainPieces == {<<"x">>, <<" ">>, <<"\n">>, Fence}

RECURSIVE Concats(_, _)
\* the strings made of at most n pieces of P
Concats(P, n) ==
    IF n = 0 THEN {<<>>}
    ELSE LET shorter == Concats(P, n - 1)
         IN  shorter \cup {c \o p : c \in shorter, p \in P}

\* the texts with no marker, no line that opens with a fence and no
\* whitespace around them
PlainTexts ==
    {t \in Concats(PlainPieces, MaxPlain) :
        /\ ~Contains(t, PromptMarker)
        /\ ~\E p \in 1..Len(t) : LineStart(t, p) /\ StartsWithAt(t, Fence, p)
        /\ Strip(t) = t}

\* "A\n---SPLIT---\nB"
WellFormed(A, B) == A \o <<"\n">> \o PromptMarker \o <<"\n">> \o B

Responses == Concats(Pieces, MaxPieces) \cup {WellFormed(A, B) : A, B \in PlainTexts}

CompanyNames == {<<"A", "-", "b", " ", "_", "C">>, <<"x">>}
HomeUrls     == {<<"h", "t", "t", "p", ":", "/", "/", "s", "/">>}

GenInit ==
    /\ gpc = "input"
    /\ content \in Responses
    /\ company_name \in CompanyNames
    /\ home_url \in HomeUrls
    /\ persona_yaml = <<>>
    /\ playbook_yaml = <<>>
    /\ cleaned = <<>>
    /\ recleaned = <<>>
    /\ fpc = "idle"
    /\ pages_content = ""
    /\ pages_content_again = ""

\* no response is being split
GenIdle ==
    /\ gpc = "idle"
    /\ content = <<>>
    /\ company_name = <<>>
    /\ home_url = <<>>
    /\ persona_yaml = <<>>
    /\ playbook_yaml = <<>>
    /\ cleaned = <<>>
    /\ recleaned = <<>>
    /\ fpc = "idle"
    /\ pages_content = ""
    /\ pages_content_again = ""

\* no crawl is running
CrawlIdle ==
    /\ pc = "idle"
    /\ start_url = Home
    /\ max_pages = 1
    /\ base_domain = Netloc(Home)
    /\ visited_urls = {}
    /\ pages_data = <<>>
    /\ browser = "none"
    /\ current_url = None
    /\ queue = <<>>
    /\ tabs = <<>>
    /\ result = NoResult
    /\ start_failed = FALSE
    /\ load_failed = FALSE
    /\ tab_read = NoRead

Parse ==
    /\ gpc = "input"
    /\ LET r == ParseResponse(content, company_name, home_url)
       IN  persona_yaml' = r.persona /\ playbook_yaml' = r.playbook
    /\ gpc' = "parsed"
    /\ UNCHANGED <<crawl_vars, content, company_name, home_url, cleaned, recleaned,
                   fpc, pages_content, pages_content_again>>

Clean ==
    /\ gpc = "input"
    /\ cleaned' = CleanYaml(content)
    /\ gpc' = "cleaned"
    /\ UNCHANGED <<crawl_vars, content, company_name, home_url, persona_yaml, playbook_yaml,
                   recleaned, fpc, pages_content, pages_content_again>>

CleanAgain ==
    /\ gpc = "cleaned"
    /\ recleaned' = CleanYaml(cleaned)
    /\ gpc' = "recleaned"
    /\ UNCHANGED <<crawl_vars, content, company_name, home_url, persona_yaml, playbook_yaml,
                   cleaned, fpc, pages_content, pages_content_again>>

InitParse == CrawlIdle /\ GenInit

NextParse ==
    \/ Parse
    \/ Clean
    \/ CleanAgain

SpecParse == InitParse /\ [][NextParse]_vars

-----------------------------------------------------------------------------
(* src/generator.py: _format_pages_content.  What it returns is a string;  *)
(* a page text, kept run-length encoded, is written into it run by run as  *)
(* the character and the length of the run, which tells any two texts      *)
(* apart as their characters would.                                        *)

ContentLimit == 8000   \* text[:8000]
ButtonLimit  == 20     \* buttons[:20]
LinkLimit    == 15     \* links[:15]

RECURSIVE Join(_, _)
\* sep.join(strs)
Join(strs, sep) ==
    IF strs = <<>> THEN ""
    ELSE IF Len(strs) = 1 THEN strs[1]
    ELSE strs[1] \o sep \o Join(Tail(strs), sep)

\* a string kept as the sequence of its characters, as a string
Chars(s) == Join(s, "")

\* the string a URL is
UrlString(u) == "http://" \o u.netloc \o "/" \o ToString(u.path)

\* the string a run-length encoded text is
TextString(t) == Join([i \in 1..Len(t) |-> t[i].ch \o "{" \o ToString(t[i].n) \o "}"], "")

\* [c['text'] for c in clickables if c.get('type') == kind]
TextsOfType(clickables, kind) ==
    LET of == SelectSeq(clickables, LAMBDA c : c.type = kind)
    IN  [i \in 1..Len(of) |-> of[i].text]

\* ', '.join(labels[:limit]) if labels else 'None found'
Labels(labels, limit) ==
    IF labels # <<>> THEN Join(Take(labels, limit), ", ") ELSE "None found"

\* part, for the i-th page
Part(i, page) ==
    LET buttons  == TextsOfType(page.clickables, "button")
        links    == TextsOfType(page.clickables, "link")
        tab_info == IF page.is_tab THEN " (Tab: " \o Chars(page.tab_name) \o ")" ELSE ""
    IN  "\n=== PAGE " \o ToString(i) \o tab_info \o " ===\nURL: " \o UrlString(page.url)
        \o "\nTitle: " \o Chars(page.title)
        \o "\n\nBUTTONS/CLICKABLES: " \o Labels(buttons, ButtonLimit)
        \o "\n\nLINKS: " \o Labels(links, LinkLimit)
        \o "\n\nPAGE CONTENT:\n" \o TextString(TakeText(page.text, ContentLimit)) \o "\n"

\* the string _format_pages_content(scraped_data) returns
FormatPagesContent(scraped_data) ==
    Join([i \in 1..Len(scraped_data.pages) |-> Part(i, scraped_data.pages[i])], "\n")

\* a formatter that takes the clickables out of the pages as it reads them
FormatCallDraining(scraped_data) ==
    [text |-> FormatPagesContent(scraped_data),
     data |-> [scraped_data EXCEPT !.pages =
                  [i \in 1..Len(scraped_data.pages) |->
                      [scraped_data.pages[i] EXCEPT !.clickables = <<>>]]]]

\* a call of _format_pages_content: what it returns and what it leaves in
\* scraped_data, which it only reads (get, slices and comprehensions build
\* new values)
FormatCall(scraped_data) ==
    [text |-> FormatPagesContent(scraped_data), data |-> scraped_data]

\* generate() formats what scrape() returned; main() goes that far only with
\* at least one page
FormatPages ==
    /\ pc = "returned"
    /\ result.pages # <<>>
    /\ fpc = "idle"
    /\ LET call == FormatCall(result)
       IN  pages_content' = call.text /\ result' = call.data
    /\ fpc' = "once"
    /\ UNCHANGED <<pc, start_url, max_pages, base_domain, visited_urls, pages_data, browser,
                   current_url, queue, tabs, start_failed, load_failed, tab_read,
                   gpc, content, company_name, home_url, persona_yaml, playbook_yaml,
                   cleaned, recleaned, pages_content_again>>

\* a second call on the same scraped_data
FormatPagesAgain ==
    /\ fpc = "once"
    /\ LET call == FormatCall(result)
       IN  pages_content_again' = call.text /\ result' = call.data
    /\ fpc' = "twice"
    /\ UNCHANGED <<pc, start_url, max_pages, base_domain, visited_urls, pages_data, browser,
                   current_url, queue, tabs, start_failed, load_failed, tab_read,
                   gpc, content, company_name, home_url, persona_yaml, playbook_yaml,
                   cleaned, recleaned, pages_content>>

-----------------------------------------------------------------------------
(* The crawl as a state machine. *)

Init == CrawlInit /\ GenIdle

Next ==
    \/ Launch
    \/ NewContext
    \/ NewPage
    \/ ScrapeStart
    \/ Discover
    \/ Expand
    \/ ExpandDone
    \/ TabsGoto
    \/ ClickTab
    \/ TabsDone
    \/ Close
    \/ FormatPages
    \/ FormatPagesAgain

Spec == Init /\ [][Next]_vars

\* _scrape_page handed an arbitrary URL while the candidates are iterated:
\* the crawl, with any URL whatever offered to _scrape_page
OfferPage ==
    /\ pc = "expand"
    /\ \E url \in URLs : ScrapePage(url, "expand")
    /\ UNCHANGED <<gen_vars, start_url, max_pages, base_domain, browser, queue, tabs, result, tab_read>>

NextOffer ==
    \/ Next
    \/ OfferPage

SpecOffer == Init /\ [][NextOffer]_vars

\* the crawl of a site whose start page has ManyTabs tab elements
NextSweep ==
    \/ Launch
    \/ NewContext
    \/ NewPage
    \/ ScrapeStart
    \/ Discover
    \/ Expand
    \/ ExpandDone
    \/ TabsGotoMany
    \/ ClickTabMany
    \/ TabsDone
    \/ Close

SpecSweep == Init /\ [][NextSweep]_vars

-----------------------------------------------------------------------------
(* Properties of the crawl. *)

\* C1: in every state of a crawl, whatever URLs are offered to _scrape_page
\* and whether the loads succeed or fail, visited_urls holds at most
\* max_pages URLs.
C1_VisitedWithinBudget == Cardinality(visited_urls) <= max_pages

\* a crawl that filled its budget, lost a page to a failed load and returned
C1_Witness ==
    /\ pc = "returned"
    /\ max_pages > 1
    /\ Cardinality(visited_urls) = max_pages
    /\ load_failed

\* C2: no record of pages (and so none of the returned list) has a url of a
\* domain other than the start URL's, the tab records included.
C2_RecordsOnBaseDomain ==
    /\ \A i \in 1..Len(pages_data) : Netloc(pages_data[i].url) = base_domain
    /\ \A i \in 1..Len(result.pages) : Netloc(result.pages[i].url) = base_domain

\* the same-domain candidates of the first page that are not visited when
\* they are collected
Discoverable == NavUrls(pages_data[1]) \ {start_url}

\* C3: when every load succeeds, the Expand loop ends with exactly
\* min(n, max_pages - 1) pages beyond the start page, n the number of
\* discoverable same-domain URLs of the first page that were not yet visited.
C3_ExpandScrapesMin ==
    (pc = "tabs_goto" /\ ~load_failed)
        => Len(pages_data) - 1 = Min(Cardinality(Discoverable), max_pages - 1)

\* C4: once the load of the start URL has thrown, scrape() does not raise,
\* no record is ever appended, and the value returned has no pages.
C4_FailedStartNoPages ==
    start_failed =>
        /\ pc \in {"discover", "close", "returned"}
        /\ pages_data = <<>>
        /\ pc = "returned" => (result.returned /\ result.pages = <<>>)

C4_Witness == start_failed /\ pc = "returned" /\ result.pages = <<>>

-----------------------------------------------------------------------------
(* Properties of the response splitter. *)

\* C5: for a response that holds the marker, the persona is what comes
\* before the first marker and the playbook is all that comes after the
\* first marker, each stripped (and cleaned of fences, as the code does to
\* both halves).
C5_SplitsOnFirstMarker ==
    (gpc = "parsed" /\ Contains(content, PromptMarker)) =>
        LET i == Find(content, PromptMarker, 1)
        IN  /\ persona_yaml = CleanYaml(Strip(SubSeq(content, 1, i - 1)))
            /\ playbook_yaml =
                   CleanYaml(Strip(SubSeq(content, i + Len(PromptMarker), Len(content))))

\* C6: for texts A and B with no marker, no line that opens with a fence and
\* no surrounding whitespace, _parse_response of "A\n---SPLIT---\nB" is
\* exactly (A, B).
C6_RoundTrip ==
    \A A, B \in PlainTexts :
        (gpc = "parsed" /\ content = WellFormed(A, B))
            => (persona_yaml = A /\ playbook_yaml = B)

\* a well-formed response of two different non-empty texts, the first
\* holding a fence inside a line, was split into them
C6_Witness ==
    /\ gpc = "parsed"
    /\ \E A, B \in PlainTexts :
          /\ A # <<>> /\ B # <<>> /\ A # B
          /\ Contains(A, Fence)
          /\ content = WellFormed(A, B)
          /\ persona_yaml = A
          /\ playbook_yaml = B

\* the response holds neither the marker nor the preamble of a playbook
NoMarkerNoPreamble == ~Contains(content, PromptMarker) /\ PreambleStart(content) = 0

C8_CleanIdempotent == gpc = "recleaned" => recleaned = cleaned

-----------------------------------------------------------------------------
(* Properties of the tab sweep and of the browser. *)

\* some record of pages has the first 500 characters of text
PrefixInPages(text, pages) ==
    \E i \in 1..Len(pages) :
        TakeText(pages[i].text, PrefixLen) = TakeText(text, PrefixLen)

\* C9: an iteration of the tab loop that read a text whose first 500
\* characters are those of a record already in pages appends nothing; when
\* it appends, it appends one tab record whose 500-character prefix no
\* earlier record has.
C9_TabDedup ==
    [][pc = "tab_loop" =>
        /\ (tab_read'.outcome \in {"duplicate", "appended"}
               /\ PrefixInPages(tab_read'.text, pages_data))
              => pages_data' = pages_data
        /\ pages_data' # pages_data =>
              /\ Len(pages_data') = Len(pages_data) + 1
              /\ SubSeq(pages_data', 1, Len(pages_data)) = pages_data
              /\ pages_data'[Len(pages_data')].is_tab
              /\ ~PrefixInPages(pages_data'[Len(pages_data')].text, pages_data)]_vars

\* a tab was dropped because an earlier tab record has its prefix
C9_Witness ==
    /\ tab_read.outcome = "duplicate"
    /\ \E i \in 1..Len(pages_data) :
          /\ pages_data[i].is_tab
          /\ TakeText(pages_data[i].text, PrefixLen) = TakeText(tab_read.text, PrefixLen)
          /\ pages_data[i].text # tab_read.text

-----------------------------------------------------------------------------
(* Properties of the whole crawl. *)

\* C11: a step of the Expand loop never leaves the loop but to call
\* _click_tabs, and does that only when no candidate is left; a step in
\* which a load failed (the URL was added to visited_urls and no record was
\* appended) appends nothing, keeps the crawl in the loop and leaves all the
\* later candidates queued.
C11_FailureDoesNotAbort ==
    [][pc = "expand" =>
        /\ pc' \in {"expand", "tabs_goto"}
        /\ pc' = "tabs_goto" => queue = <<>>
        /\ (visited_urls' # visited_urls /\ Len(pages_data') = Len(pages_data)) =>
              /\ pages_data' = pages_data
              /\ pc' = "expand"
              /\ queue' = Tail(queue)]_vars

\* the start page loaded, the load of the first candidate failed, and a
\* later candidate is queued with budget left for it
C11_Witness ==
    /\ pc = "expand"
    /\ load_failed /\ ~start_failed
    /\ Len(pages_data) = 1
    /\ Cardinality(visited_urls) = 2
    /\ queue # <<>>
    /\ Head(queue) \notin visited_urls
    /\ ~BudgetExhausted

Hrefs(page) ==
    {page.nav_items[i].href : i \in 1..Len(page.nav_items)}
        \cup {page.clickables[i].href : i \in 1..Len(page.clickables)}

\* C13: _scrape_page loads a URL in the step that adds it to visited_urls.
\* Every such URL is the start URL or an href of the first record, and was
\* not in visited_urls before; a record of a page is only appended for a
\* URL loaded in that step; and the Expand loop only ever takes URLs off
\* its queue, which holds hrefs of the first record.
C13_ShallowNoRevisit ==
    [][/\ visited_urls \subseteq visited_urls'
       /\ Cardinality(visited_urls' \ visited_urls) <= 1
       /\ \A u \in visited_urls' \ visited_urls :
             \/ u = start_url
             \/ pages_data # <<>> /\ u \in Hrefs(pages_data[1])
       /\ (Len(pages_data') > Len(pages_data) /\ ~pages_data'[Len(pages_data')].is_tab)
             => pages_data'[Len(pages_data')].url \in visited_urls' \ visited_urls
       /\ pc = "expand" =>
             /\ queue' = queue \/ (queue # <<>> /\ queue' = Tail(queue))
             /\ \A i \in 1..Len(queue) : queue[i] \in Hrefs(pages_data[1])]_vars

\* a crawl returned with budget left although a page it scraped in the
\* Expand loop links to a page of the site that was never loaded
C13_Witness ==
    /\ pc = "returned"
    /\ Cardinality(visited_urls) < max_pages
    /\ \E i \in 2..Len(pages_data) :
          /\ ~pages_data[i].is_tab
          /\ \E u \in Hrefs(pages_data[i]) \ visited_urls :
                SameDomain(u) /\ u \notin Hrefs(pages_data[1])

\* the records of pages that are tab records, or that are not
Records(is_tab) == SelectSeq(pages_data, LAMBDA p : p.is_tab = is_tab)

\* C14: in every state the records of pages that are not tab records are
\* at most as many as the URLs of visited_urls, the tab records are at most
\* 5 and come after all the others, and pages holds at most max_pages + 5
\* records.
C14_PagesBounded ==
    /\ Len(Records(FALSE)) <= Cardinality(visited_urls)
    /\ Len(Records(TRUE)) <= TabLimit
    /\ pages_data = Records(FALSE) \o Records(TRUE)
    /\ Len(pages_data) <= max_pages + TabLimit

\* a crawl of more than one page returned max_pages + 5 records from a
\* start page with more than 5 tabs
C14_Witness ==
    /\ pc = "returned"
    /\ max_pages > 1
    /\ Len(Records(TRUE)) = TabLimit
    /\ Len(result.pages) = max_pages + TabLimit

====
